---- MODULE Spec2Model ----
(***************************************************************************)
(* A model of the stock-comparison MCP server (src/server): the tool       *)
(* boundary handle_call_tool, the analytics compare_symbols and            *)
(* hierarchical_risk_parity_portfolio, the fetch get_historical and the    *)
(* on-disk JSON cache.                                                     *)
(*                                                                         *)
(* Conventions.                                                            *)
(*  - A Python str is a sequence of glyphs (a glyph is one character, or a *)
(*    fixed literal such as "historical" that is never split); + and       *)
(*    f-strings are \o, so two different ways of building the same text    *)
(*    give equal sequences.                                                *)
(*  - An Optional is a sequence of length 0 (None) or 1.                   *)
(*  - A JSON value is a tagged pair <<tag, content>>.                      *)
(*  - A float is a rational, or one of the IEEE specials.                  *)
(***************************************************************************)
EXTENDS Integers, Sequences, FiniteSets, TLC

VARIABLES
    world,      \* the data source and the installed configuration
    now,        \* time.time()
    cache,      \* CACHE_DIR: cache key -> text of the file
    pc,         \* where handle_call_tool is
    req,        \* name and arguments of the running call
    syms,       \* the list handed to the analyzer
    p_interval,   \* the interval handed to the analyzer
    p_outputsize, \* the outputsize handed to the analyzer
    idx,        \* position of the analyzer's fetch loop
    series_map, \* the analyzer's series_map
    log,        \* the get_historical calls of the running call
    resp,       \* the value whose json.dumps text is returned
    outcome,    \* which return statement produced resp
    run,        \* how many times the request has been run
    firstResp,  \* resp of the request's first run
    seen,       \* get_historical parameter triples requested so far
    answer,     \* last value get_historical returned and where it came from
    calls,      \* how many times get_historical was called directly
    wpc, wn, wts, wlinked, \* a save_json in progress
    rpc, rn, rbuf, rret, \* a load_json in progress
    lastSaved   \* data of the last completed save_json

vars == <<world, now, cache, pc, req, syms, p_interval, p_outputsize, idx, series_map, log, resp,
          outcome, run, firstResp, seen, answer, calls, wpc, wn, wts, wlinked,
          rpc, rn, rbuf, rret, lastSaved>>

---------------------------------------------------------------------------
(* Bounds of the model *)

MaxSyms == 2        \* longest symbols list of a request
MaxRuns == 2        \* runs of one request against the same cache
MaxTicks == 1       \* clock advances
MaxSaves == 2       \* save_json calls of the concurrent writer
MaxLoads == 2       \* load_json calls of the concurrent reader
MaxCalls == 3       \* direct calls of get_historical
WeightDen == 2      \* optimizer weights are multiples of 1/WeightDen

(* config.py *)
CACHE_HISTORICAL_EXPIRY == 3600
DEFAULT_OUTPUTSIZE == 30
DEFAULT_INTERVAL == <<"1day">>

\* one advance of the clock outlives a cache entry
TickStep == CACHE_HISTORICAL_EXPIRY + 1

---------------------------------------------------------------------------
(* Python values *)

None == <<>>
Some(x) == <<x>>

\* the element of a singleton: The({F(x) : x \in {e}}) is F(e), with e
\* evaluated once
The(S) == CHOOSE x \in S : TRUE

Min(a, b) == IF a <= b THEN a ELSE b
UpperGlyph(c) ==
    CASE c = "a" -> "A"
      [] c = "b" -> "B"
      [] OTHER -> c

\* str.upper()
Upper(s) == [i \in 1..Len(s) |-> UpperGlyph(s[i])]

RECURSIVE LStrip(_)
LStrip(s) == IF s # <<>> /\ Head(s) = " " THEN LStrip(Tail(s)) ELSE s

RECURSIVE RStrip(_)
RStrip(s) ==
    IF s # <<>> /\ s[Len(s)] = " " THEN RStrip(SubSeq(s, 1, Len(s) - 1)) ELSE s

\* str.strip()
Strip(s) == RStrip(LStrip(s))

\* str(n) for an int
StrInt(n) == <<ToString(n)>>

---------------------------------------------------------------------------
(* JSON values and the json module *)

JNull == <<"null", <<>>>>
JStr(s) == <<"str", s>>
JNum(n) == <<"num", n>>
JList(items) == <<"list", items>>
JObj(pairs) == <<"obj", pairs>>

IsObj(v) == v[1] = "obj"

\* the keys of a dict
Keys(v) == {v[2][i][1] : i \in 1..Len(v[2])}

\* dict.get(key, default)
Get(v, key, default) ==
    IF key \in Keys(v)
    THEN v[2][CHOOSE i \in 1..Len(v[2]) : v[2][i][1] = key][2]
    ELSE default

Tok(k) == <<k, <<>>>>

RECURSIVE Dump(_), DumpItems(_), DumpPairs(_)
\* json.dump / json.dumps: the text, as a sequence of tokens
Dump(v) ==
    CASE v[1] = "list" -> <<Tok("[")>> \o DumpItems(v[2]) \o <<Tok("]")>>
      [] v[1] = "obj" -> <<Tok("{")>> \o DumpPairs(v[2]) \o <<Tok("}")>>
      [] OTHER -> <<v>>
DumpItems(items) ==
    IF items = <<>> THEN <<>>
    ELSE Dump(Head(items)) \o
         (IF Tail(items) = <<>> THEN <<>>
          ELSE <<Tok(",")>> \o DumpItems(Tail(items)))
DumpPairs(pairs) ==
    IF pairs = <<>> THEN <<>>
    ELSE <<JStr(Head(pairs)[1]), Tok(":")>> \o Dump(Head(pairs)[2]) \o
         (IF Tail(pairs) = <<>> THEN <<>>
          ELSE <<Tok(",")>> \o DumpPairs(Tail(pairs)))

ParseFail == [ok |-> FALSE, val |-> JNull, rest |-> <<>>]
ParseOk(v, rest) == [ok |-> TRUE, val |-> v, rest |-> rest]

RECURSIVE ParseValue(_), ParseItems(_, _), ParsePairs(_, _)
ParseValue(t) ==
    IF t = <<>> THEN ParseFail
    ELSE LET h == Head(t) IN
         CASE h[1] \in {"null", "str", "num"} -> ParseOk(h, Tail(t))
           [] h[1] = "[" ->
                IF Len(t) >= 2 /\ t[2][1] = "]"
                THEN ParseOk(JList(<<>>), SubSeq(t, 3, Len(t)))
                ELSE ParseItems(Tail(t), <<>>)
           [] h[1] = "{" ->
                IF Len(t) >= 2 /\ t[2][1] = "}"
                THEN ParseOk(JObj(<<>>), SubSeq(t, 3, Len(t)))
                ELSE ParsePairs(Tail(t), <<>>)
           [] OTHER -> ParseFail
ParseItems(t, acc) ==
    The({IF ~r.ok \/ r.rest = <<>> THEN ParseFail
         ELSE IF Head(r.rest)[1] = ","
              THEN ParseItems(Tail(r.rest), Append(acc, r.val))
         ELSE IF Head(r.rest)[1] = "]"
              THEN ParseOk(JList(Append(acc, r.val)), Tail(r.rest))
         ELSE ParseFail : r \in {ParseValue(t)}})
ParsePairs(t, acc) ==
    IF Len(t) < 2 \/ t[1][1] # "str" \/ t[2][1] # ":" THEN ParseFail
    ELSE The({IF ~r.ok \/ r.rest = <<>> THEN ParseFail
              ELSE IF Head(r.rest)[1] = ","
                   THEN ParsePairs(Tail(r.rest), Append(acc, <<t[1][2], r.val>>))
              ELSE IF Head(r.rest)[1] = "}"
                   THEN ParseOk(JObj(Append(acc, <<t[1][2], r.val>>)), Tail(r.rest))
              ELSE ParseFail : r \in {ParseValue(SubSeq(t, 3, Len(t)))}})

\* json.load: ok is FALSE where it raises JSONDecodeError
Load(text) ==
    The({IF r.ok /\ r.rest = <<>> THEN r ELSE ParseFail : r \in {ParseValue(text)}})

---------------------------------------------------------------------------
(* cache.py *)

\* the file name is the SHA-1 of the key: taken to be collision-free
_key_to_path(key) == <<"sha1(">> \o key \o <<").json">>

Put(c, p, text) == [q \in DOMAIN c \cup {p} |-> IF q = p THEN text ELSE c[q]]
Remove(c, p) == [q \in DOMAIN c \ {p} |-> c[q]]

\* the text save_json writes: {"ts": time.time(), "data": data}
SavedText(data, t) == Dump(JObj(<< <<<<"ts">>, JNum(t)>>, <<<<"data">>, data>> >>))

save_json(c, key, data, t) == Put(c, _key_to_path(key), SavedText(data, t))

\* a faulty load_json, which returns the whole file object and never expires
AfterReadWholeFile(text, t, max_age) ==
    The({IF ~r.ok \/ ~IsObj(r.val) THEN [unlink |-> TRUE, ret |-> None]
         ELSE [unlink |-> FALSE, ret |-> Some(r.val)] : r \in {Load(text)}})

\* load_json once the file was read: whether it unlinks, and what it returns
AfterRead(text, t, max_age) ==
    The({IF ~r.ok \/ ~IsObj(r.val) THEN [unlink |-> TRUE, ret |-> None]
         ELSE LET ts == Get(r.val, <<"ts">>, JNum(0))
                  data == Get(r.val, <<"data">>, JNull)
              IN  IF ts[1] # "num" THEN [unlink |-> TRUE, ret |-> None]
                  ELSE IF max_age # None /\ (t - ts[2]) > max_age[1]
                       THEN [unlink |-> TRUE, ret |-> None]
                  ELSE [unlink |-> FALSE,
                        ret |-> IF data = JNull THEN None ELSE Some(data)]
         : r \in {Load(text)}})

\* load_json run without interruption
load_json(c, key, t, max_age) ==
    LET p == _key_to_path(key) IN
    IF p \notin DOMAIN c THEN [cache |-> c, ret |-> None]
    ELSE The({[cache |-> IF a.unlink THEN Remove(c, p) ELSE c, ret |-> a.ret]
              : a \in {AfterRead(c[p], t, max_age)}})

EmptyCache == [q \in {} |-> <<>>]

---------------------------------------------------------------------------
(* The data source behind _call_api.  world.src gives, for each upper-cased
   symbol, what TwelveData answers: k = "ok" with the observations (newest
   first, each <<time, close text>>), "status_error" (an error payload
   without a code), "code_error" (an error payload with a code) or
   "http_error" (requests raises). *)

Obs(tkey, o) ==
    JObj(<< <<<<tkey>>, JStr(StrInt(o[1]))>>, <<<<"close">>, JStr(o[2])>> >>)

ApiPayload(b, symbol, interval, outputsize) ==
    CASE b.k = "ok" ->
           JObj(<< <<<<"meta">>, JObj(<< <<<<"symbol">>, JStr(symbol)>>,
                                         <<<<"interval">>, JStr(interval)>> >>)>>,
                   <<<<"values">>,
                     JList([i \in 1..Min(outputsize, Len(b.values)) |->
                              Obs(b.tkey, b.values[i])])>>,
                   <<<<"status">>, JStr(<<"ok">>)>> >>)
      [] b.k = "status_error" ->
           JObj(<< <<<<"status">>, JStr(<<"error">>)>>,
                   <<<<"message">>, JStr(<<"no data">>)>> >>)
      [] OTHER ->
           JObj(<< <<<<"code">>, JNum(404)>>,
                   <<<<"message">>, JStr(<<"symbol not found: ">> \o symbol)>>,
                   <<<<"status">>, JStr(<<"error">>)>> >>)

Raised(msg) == [raised |-> TRUE, msg |-> msg, val |-> JNull]
Returned(v) == [raised |-> FALSE, msg |-> <<>>, val |-> v]

(* data_fetcher.py *)

\* _require_api_key and _call_api.  str(data) in the RuntimeError of line 25
\* is carried by the payload's message.
_call_api(w, symbol, interval, outputsize) ==
    LET b == w.src[symbol] IN
    IF ~w.apiKey
    THEN Raised(<<"TWELVE_DATA_API_KEY environment variable is not set. Set it in a .env or environment.">>)
    ELSE IF b.k = "http_error"
    THEN Raised(<<"HTTPSConnectionPool(host='api.twelvedata.com', port=443): Read timed out.">>)
    ELSE The({IF IsObj(data) /\ Get(data, <<"code">>, JNull) \notin {JNull, JNum(0)}
              THEN Raised(<<"TwelveData API error: ">> \o Get(data, <<"message">>, JNull)[2])
              ELSE Returned(data)
              : data \in {ApiPayload(b, symbol, interval, outputsize)}})

\* interval or config.DEFAULT_INTERVAL
EffInterval(interval) ==
    IF interval = None \/ interval = Some(<<>>) THEN DEFAULT_INTERVAL ELSE interval[1]

\* outputsize or config.DEFAULT_OUTPUTSIZE
EffOutputsize(outputsize) ==
    IF outputsize = None \/ outputsize = Some(0) THEN DEFAULT_OUTPUTSIZE ELSE outputsize[1]

\* f"historical:{symbol.upper()}:{interval}:{outputsize}"
HistoricalKey(symbol, interval, outputsize) ==
    <<"historical", ":">> \o symbol \o <<":">> \o interval \o <<":">> \o StrInt(outputsize)

Triple(symbol, interval, outputsize) ==
    <<Upper(symbol), EffInterval(interval), EffOutputsize(outputsize)>>

\* get_historical: the returned value or the exception, the cache it leaves,
\* and what it did (hit: answered from the cache; net: _call_api was called)
get_historical(w, c, t, symbol, interval, outputsize) ==
    LET tr == Triple(symbol, interval, outputsize)
        key == HistoricalKey(tr[1], tr[2], tr[3])
    IN  The({IF l.ret # None
             THEN [res |-> Returned(l.ret[1]), cache |-> l.cache, key |-> key,
                   hit |-> TRUE, net |-> FALSE, wrote |-> FALSE]
             ELSE The({IF a.raised
                       THEN [res |-> a, cache |-> l.cache, key |-> key,
                             hit |-> FALSE, net |-> TRUE, wrote |-> FALSE]
                       ELSE [res |-> a, cache |-> save_json(l.cache, key, a.val, t),
                             key |-> key, hit |-> FALSE, net |-> TRUE, wrote |-> TRUE]
                       : a \in {_call_api(w, tr[1], tr[2], tr[3])}})
             : l \in {load_json(c, key, t, Some(CACHE_HISTORICAL_EXPIRY))}})

---------------------------------------------------------------------------
(* Floats: t is "fin" for the rational n/d (d > 0, in lowest terms), or
   "nan", "inf", "ninf". *)

RECURSIVE Gcd(_, _)
Gcd(a, b) == IF b = 0 THEN a ELSE Gcd(b, a % b)

Abs(x) == IF x < 0 THEN -x ELSE x

Q(n, d) ==
    LET s == IF d < 0 THEN -1 ELSE 1
        g == Gcd(Abs(n), Abs(d))
    IN  [t |-> "fin", n |-> (s * n) \div g, d |-> (s * d) \div g]

NaN == [t |-> "nan", n |-> 0, d |-> 1]
PInf == [t |-> "inf", n |-> 0, d |-> 1]
NInf == [t |-> "ninf", n |-> 0, d |-> 1]

IsNaN(x) == x.t = "nan"
IsFinite(x) == x.t = "fin"
IsZero(x) == x.t = "fin" /\ x.n = 0
\* -1, 0 or 1; x is not NaN
Sign(x) ==
    CASE x.t = "inf" -> 1
      [] x.t = "ninf" -> -1
      [] OTHER -> IF x.n > 0 THEN 1 ELSE IF x.n < 0 THEN -1 ELSE 0

Signed(s) == IF s > 0 THEN PInf ELSE NInf

FNeg(x) ==
    CASE x.t = "fin" -> Q(-x.n, x.d)
      [] x.t = "inf" -> NInf
      [] x.t = "ninf" -> PInf
      [] OTHER -> NaN

FAdd(x, y) ==
    CASE IsNaN(x) \/ IsNaN(y) -> NaN
      [] IsFinite(x) /\ IsFinite(y) -> Q(x.n * y.d + y.n * x.d, x.d * y.d)
      [] IsFinite(x) -> y
      [] IsFinite(y) -> x
      [] OTHER -> IF x.t = y.t THEN x ELSE NaN

FSub(x, y) == FAdd(x, FNeg(y))

FMul(x, y) ==
    CASE IsNaN(x) \/ IsNaN(y) -> NaN
      [] IsFinite(x) /\ IsFinite(y) -> Q(x.n * y.n, x.d * y.d)
      [] OTHER -> IF Sign(x) * Sign(y) = 0 THEN NaN ELSE Signed(Sign(x) * Sign(y))

\* float division as numpy does it: x/0 is an infinity or NaN, no exception
FDiv(x, y) ==
    CASE IsNaN(x) \/ IsNaN(y) -> NaN
      [] IsFinite(x) /\ IsFinite(y) ->
           IF y.n = 0
           THEN (IF x.n = 0 THEN NaN ELSE Signed(Sign(x)))
           ELSE Q(x.n * y.d, x.d * y.n)
      [] IsFinite(y) -> Signed(Sign(x) * (IF Sign(y) < 0 THEN -1 ELSE 1))
      [] IsFinite(x) -> Q(0, 1)
      [] OTHER -> NaN

\* x < y; neither is NaN
FLess(x, y) ==
    CASE x.t = "ninf" -> y.t # "ninf"
      [] x.t = "inf" -> FALSE
      [] y.t = "ninf" -> FALSE
      [] y.t = "inf" -> TRUE
      [] OTHER -> x.n * y.d < y.n * x.d

RECURSIVE FSum(_)
FSum(xs) == IF xs = <<>> THEN Q(0, 1) ELSE FAdd(Head(xs), FSum(Tail(xs)))

\* Series.mean()
FMean(xs) == FDiv(FSum(xs), Q(Len(xs), 1))

\* Series.var(ddof=0): the mean of the squared deviations from the mean
FVar(xs) ==
    The({FMean([i \in 1..Len(xs) |-> The({FMul(dev, dev) : dev \in {FSub(xs[i], m)}})])
         : m \in {FMean(xs)}})

\* the sequence without its element at i
Without(xs, i) == SubSeq(xs, 1, i - 1) \o SubSeq(xs, i + 1, Len(xs))

\* position of a least element
ArgMin(xs) == CHOOSE i \in 1..Len(xs) : \A j \in 1..Len(xs) : ~FLess(xs[j], xs[i])

RECURSIVE Sorted(_)
Sorted(xs) ==
    IF xs = <<>> THEN <<>>
    ELSE The({<<xs[i]>> \o Sorted(Without(xs, i)) : i \in {ArgMin(xs)}})

\* np.percentile(r, 5): linear interpolation at position 0.05 * (n - 1)
Percentile5(xs) ==
    LET n == Len(xs)
        lo == ((n - 1) \div 20) + 1
        frac == Q((n - 1) % 20, 20)
    IN  The({IF lo = n \/ IsZero(frac) THEN s[lo]
             ELSE FAdd(s[lo], FMul(FSub(s[lo + 1], s[lo]), frac))
             : s \in {Sorted(xs)}})

---------------------------------------------------------------------------
(* analyzers.py.  A Series is a sequence of <<time, price>>; a panel is a
   sequence of rows, each a sequence of one float per column. *)

Fl(x) == <<"float", x>>

\* the int a decimal text stands for, None for any other text
IntOfText(s) ==
    IF \E n \in 0..9 : StrInt(n) = s
    THEN Some(CHOOSE n \in 0..9 : StrInt(n) = s)
    ELSE None

\* pd.to_numeric(errors='coerce') of one cell
ToNumeric(v) ==
    IF v[1] = "str" /\ IntOfText(v[2]) # None THEN Q(IntOfText(v[2])[1], 1)
    ELSE IF v[1] = "num" THEN Q(v[2], 1)
    ELSE NaN

RECURSIVE SortByTime(_)
\* Series.sort_index()
SortByTime(s) ==
    IF s = <<>> THEN <<>>
    ELSE LET i == CHOOSE i \in 1..Len(s) : \A j \in 1..Len(s) : s[i][1] <= s[j][1]
         IN  <<s[i]>> \o SortByTime(Without(s, i))

_ts_to_series(ts_json) ==
    IF ~IsObj(ts_json) THEN Raised(<<"object has no attribute 'get'">>)
    ELSE The({
        IF values[1] # "list" \/ values[2] = <<>> THEN Returned(<<>>)
        ELSE The({
            IF <<"close">> \notin columns THEN Raised(<<"KeyError: 'close'">>)
            ELSE LET rows == values[2]
                     tkey == IF <<"datetime">> \in columns THEN <<"datetime">>
                             ELSE IF <<"timestamp">> \in columns THEN <<"timestamp">>
                             ELSE <<>>
                     time(i) == IF tkey = <<>> THEN i - 1
                                ELSE IntOfText(Get(rows[i], tkey, JNull)[2])[1]
                 IN  Returned(SortByTime(
                        [i \in 1..Len(rows) |->
                           <<time(i), ToNumeric(Get(rows[i], <<"close">>, JNull))>>]))
            : columns \in {UNION {Keys(values[2][i]) : i \in 1..Len(values[2])}}})
        : values \in {Get(ts_json, <<"values">>, JList(<<>>))}})

\* d[k] = v on a dict kept as a sequence of <<key, value>> in insertion order
DictSet(d, k, v) ==
    IF \E i \in 1..Len(d) : d[i][1] = k
    THEN [i \in 1..Len(d) |-> IF d[i][1] = k THEN <<k, v>> ELSE d[i]]
    ELSE Append(d, <<k, v>>)

RECURSIVE SetToSeq(_)
\* the elements of a set of ints, ascending
SetToSeq(S) ==
    IF S = {} THEN <<>>
    ELSE LET m == CHOOSE x \in S : \A y \in S : x <= y
         IN  <<m>> \o SetToSeq(S \ {m})

At(series, t) ==
    IF \E i \in 1..Len(series) : series[i][1] = t
    THEN series[CHOOSE i \in 1..Len(series) : series[i][1] = t][2]
    ELSE NaN

NotAllNaN(row) == \E j \in 1..Len(row) : ~IsNaN(row[j])
NotNaN(x) == ~IsNaN(x)

\* DataFrame.dropna(how='all')
DropAllNaNRows(rows) == SelectSeq(rows, NotAllNaN)

\* pd.concat(series_map.values(), axis=1, join='outer').dropna(how='all')
Prices(sm) ==
    The({DropAllNaNRows([i \in 1..Len(index) |->
                           [j \in 1..Len(sm) |-> At(sm[j][2], index[i])]])
         : index \in {SetToSeq(UNION {{sm[j][2][i][1] : i \in 1..Len(sm[j][2])} :
                                       j \in 1..Len(sm)})}})

\* DataFrame.ffill(): each gap filled from the row above
FFill(rows) ==
    LET F[i \in 0..Len(rows)] ==
            IF i <= 1 THEN (IF i = 0 THEN <<>> ELSE <<rows[1]>>)
            ELSE The({Append(up, [j \in 1..Len(rows[i]) |->
                                    IF IsNaN(rows[i][j]) THEN up[i - 1][j]
                                    ELSE rows[i][j]])
                      : up \in {F[i - 1]}})
    IN  F[Len(rows)]

PctChange(f) ==
    [i \in 1..Len(f) |->
       [j \in 1..Len(f[i]) |->
          IF i = 1 THEN NaN ELSE FSub(FDiv(f[i][j], f[i - 1][j]), Q(1, 1))]]

\* DataFrame.pct_change().dropna(how='all'); pad: this pandas forward-fills
\* the gaps first (the default before pandas 3)
Returns(prices, pad) ==
    DropAllNaNRows(PctChange(IF pad THEN FFill(prices) ELSE prices))

\* frame[col].dropna()
ColumnValues(rows, j) == SelectSeq([i \in 1..Len(rows) |-> rows[i][j]], NotNaN)

Daily(interval) ==
    interval \in {None, Some(<<"1day">>), Some(<<"1D">>), Some(<<"1d">>)}

NullMetrics ==
    JObj(<< <<<<"latest">>, JNull>>, <<<<"cumulative_return">>, JNull>>,
            <<<<"volatility">>, JNull>>, <<<<"sharpe">>, JNull>>,
            <<<<"var_95">>, JNull>> >>)

(* One symbol's metrics.  std is the square root of var, which no rational
   holds: volatility and sharpe are carried as their signed squares
   (std * std, 252 * std * std, mean * |mean| / (std * std)), which are null,
   NaN, infinite or zero exactly when the floats are. *)
SymbolMetrics(col_prices, r, interval) ==
    LET latest == col_prices[Len(col_prices)]
        first == col_prices[1]
    IN  The({The({
          LET truthy == ~IsZero(var)
              volatility == IF truthy /\ Daily(interval)
                            THEN FMul(var, Q(252, 1)) ELSE var
              sharpe == FMul(IF IsNaN(mean) THEN NaN ELSE Q(Sign(mean), 1),
                             FDiv(FMul(mean, mean), var))
          IN  JObj(<< <<<<"latest">>, Fl(latest)>>,
                      <<<<"cumulative_return">>,
                        IF ~IsZero(first)
                        THEN Fl(FSub(FDiv(latest, first), Q(1, 1)))
                        ELSE JNull>>,
                      <<<<"volatility">>, Fl(volatility)>>,
                      <<<<"sharpe">>, IF truthy THEN Fl(sharpe) ELSE JNull>>,
                      <<<<"var_95">>,
                        IF r # <<>> THEN Fl(Percentile5(r)) ELSE JNull>> >>)
          : var \in {IF r # <<>> THEN FVar(r) ELSE Q(0, 1)}})
          : mean \in {IF r # <<>> THEN FMean(r) ELSE Q(0, 1)}})

\* the metrics of column j
ColumnMetrics(prices, returns, interval, j) ==
    The({IF col_prices = <<>> THEN NullMetrics
         ELSE SymbolMetrics(col_prices, ColumnValues(returns, j), interval)
         : col_prices \in {ColumnValues(prices, j)}})

\* a faulty metrics dict, which leaves out the columns with no price
MetricsSkipEmpty(sm, prices, returns, interval) ==
    The({[k \in 1..Len(seq) |->
            <<sm[seq[k]][1], ColumnMetrics(prices, returns, interval, seq[k])>>]
         : seq \in {SetToSeq({j \in 1..Len(sm) : ColumnValues(prices, j) # <<>>})}})

\* the metrics dict of compare_symbols: one entry per column of prices
Metrics(sm, prices, returns, interval) ==
    [j \in 1..Len(sm) |-> <<sm[j][1], ColumnMetrics(prices, returns, interval, j)>>]

\* returns.corr().fillna(0.0).round(4).to_dict(): a column -> column -> value
\* table; an entry is carried as the pair of columns it correlates
Correlation(sm) ==
    [j \in 1..Len(sm) |->
       <<sm[j][1],
         JObj([k \in 1..Len(sm) |-> <<sm[k][1], <<"corr", <<sm[j][1], sm[k][1]>>>>>>])>>]

\* compare_symbols after its fetch loop
CompareResult(sm, interval, pad) ==
    IF sm = <<>> THEN JObj(<<>>)
    ELSE The({The({
           JObj(<< <<<<"metrics">>, JObj(Metrics(sm, prices, returns, interval))>>,
                   <<<<"correlation">>, JObj(Correlation(sm))>> >>)
           : returns \in {Returns(prices, pad)}})
           : prices \in {Prices(sm)}})

\* a faulty fallback, which divides by the number of distinct symbols
EqualWeightsDistinct(symbols) ==
    LET n == Cardinality({symbols[i] : i \in 1..Len(symbols)})
        F[i \in 0..Len(symbols)] ==
            IF i = 0 THEN <<>> ELSE DictSet(F[i - 1], symbols[i], Fl(Q(1, n)))
    IN  JObj(F[Len(symbols)])

\* {sym: 1.0 / len(symbols) for sym in symbols}
EqualWeights(symbols) ==
    LET F[i \in 0..Len(symbols)] ==
            IF i = 0 THEN <<>>
            ELSE DictSet(F[i - 1], symbols[i], Fl(Q(1, Len(symbols))))
    IN  JObj(F[Len(symbols)])

\* returns.empty or returns.shape[1] < 2
FallsBack(sm, returns) == returns = <<>> \/ Len(sm) < 2

(* HRPOpt(returns).optimize() is pypfopt's: it raises, or gives each column
   of returns a weight; the weights it gives are not computed here but drawn
   from the non-negative multiples of 1/WeightDen that sum to 1. *)
OptimizerWeights(sm) ==
    {w \in [1..Len(sm) -> 0..WeightDen] : FSum([j \in 1..Len(sm) |-> Q(w[j], WeightDen)]) = Q(1, 1)}

HrpWeights(sm, w) ==
    JObj([j \in 1..Len(sm) |-> <<sm[j][1], Fl(Q(w[j], WeightDen))>>])

---------------------------------------------------------------------------
(* The fetch loop of compare_symbols and of
   hierarchical_risk_parity_portfolio: one iteration *)

Repr(ts) == <<"{'status': 'error', 'message': '">> \o Get(ts, <<"message">>, JStr(<<>>))[2] \o <<"'}">>

IsErrorPayload(ts) ==
    IsObj(ts) /\ <<"status">> \in Keys(ts) /\ Get(ts, <<"status">>, JNull) = JStr(<<"error">>)

LogEntry(sym, g, failed) ==
    [sym |-> sym, hit |-> g.hit, net |-> g.net, wrote |-> g.wrote,
     raised |-> g.res.raised, msg |-> g.res.msg, status_error |-> ~g.res.raised /\ IsErrorPayload(g.res.val),
     failed |-> failed]

\* one iteration, given what get_historical did
AfterFetch(g, sm, sym) ==
    IF g.res.raised
    THEN [failed |-> TRUE, msg |-> g.res.msg, sm |-> sm, cache |-> g.cache,
          entry |-> LogEntry(sym, g, TRUE)]
    ELSE IF IsErrorPayload(g.res.val)
    THEN [failed |-> TRUE,
          msg |-> <<"Error fetching ">> \o sym \o <<": ">> \o Repr(g.res.val),
          sm |-> sm, cache |-> g.cache, entry |-> LogEntry(sym, g, TRUE)]
    ELSE The({IF s.raised
              THEN [failed |-> TRUE, msg |-> s.msg, sm |-> sm, cache |-> g.cache,
                    entry |-> LogEntry(sym, g, TRUE)]
              ELSE [failed |-> FALSE, msg |-> <<>>,
                    sm |-> DictSet(sm, Upper(sym), s.val),
                    cache |-> g.cache, entry |-> LogEntry(sym, g, FALSE)]
              : s \in {_ts_to_series(g.res.val)}})

\* a faulty loop body, which skips a symbol whose payload reports an error
AfterFetchSkipErrors(g, sm, sym) ==
    IF ~g.res.raised /\ IsErrorPayload(g.res.val)
    THEN [failed |-> FALSE, msg |-> <<>>, sm |-> sm, cache |-> g.cache,
          entry |-> LogEntry(sym, g, FALSE)]
    ELSE AfterFetch(g, sm, sym)

LoopStepSkipErrors(w, c, t, sm, sym, iv, os) ==
    The({AfterFetchSkipErrors(g, sm, sym) : g \in {get_historical(w, c, t, sym, iv, os)}})

\* failed: the iteration raised msg; else sm is series_map after it
LoopStep(w, c, t, sm, sym, iv, os) ==
    The({AfterFetch(g, sm, sym) : g \in {get_historical(w, c, t, sym, iv, os)}})

---------------------------------------------------------------------------
(* server.py: handle_call_tool *)

ErrorObj(msg) == JObj(<< <<<<"error">>, JStr(msg)>> >>)

AnalyticTools == {"compare_stocks", "hierarchical_risk_parity_portfolio"}

\* not v
Falsy(v) == v \in {JNull, JList(<<>>), JStr(<<>>), JObj(<<>>)} \/ v = JNum(0)

\* what "for s in v" yields; v is a list, a str or a dict
Items(v) ==
    CASE v[1] = "list" -> v[2]
      [] v[1] = "str" -> [i \in 1..Len(v[2]) |-> JStr(<<v[2][i]>>)]
      [] OTHER -> [i \in 1..Len(v[2]) |-> JStr(v[2][i][1])]

\* [s.strip().upper() for s in symbols if s.strip()]
StripUpper(items) ==
    LET kept == SelectSeq(items, LAMBDA s : Strip(s[2]) # <<>>)
    IN  [i \in 1..Len(kept) |-> Upper(Strip(kept[i][2]))]

\* int(outputsize): k is "int" with the value n, "caught" for the ValueError
\* or TypeError the handler turns into an error response, "raise" for any
\* other exception
ToInt(v) ==
    CASE v[1] = "num" -> [k |-> "int", n |-> v[2]]
      [] v[1] = "str" ->
           IF IntOfText(Strip(v[2])) # None
           THEN [k |-> "int", n |-> IntOfText(Strip(v[2]))[1]]
           ELSE [k |-> "caught", n |-> 0]
      [] v[1] = "float" ->
           IF IsFinite(v[2])
           THEN [k |-> "int", n |-> Sign(v[2]) * (Abs(v[2].n) \div v[2].d)]
           ELSE IF IsNaN(v[2]) THEN [k |-> "caught", n |-> 0]
           ELSE [k |-> "raise", n |-> 0]
      [] OTHER -> [k |-> "caught", n |-> 0]

Verdict(k, oc, msg, sy, iv, os) ==
    [k |-> k, outcome |-> oc, msg |-> msg, syms |-> sy, interval |-> iv, outputsize |-> os]

\* a faulty validation, which takes an outputsize that is no integer as absent
ValidateLenient(arguments) ==
    IF ~IsObj(arguments)
    THEN Verdict("raise", "", <<"'NoneType' object has no attribute 'get'">>, <<>>, None, None)
    ELSE
    LET symbols == Get(arguments, <<"symbols">>, JList(<<>>)) IN
    IF Falsy(symbols)
    THEN Verdict("return", "missing_symbols",
                 <<"missing symbols parameter, provide list like ['AAPL', 'MSFT']">>,
                 <<>>, None, None)
    ELSE IF symbols[1] \notin {"list", "str", "obj"}
    THEN Verdict("raise", "", <<"object is not iterable">>, <<>>, None, None)
    ELSE IF \E i \in 1..Len(Items(symbols)) : Items(symbols)[i][1] # "str"
    THEN Verdict("raise", "", <<"object has no attribute 'strip'">>, <<>>, None, None)
    ELSE
    LET sy == StripUpper(Items(symbols))
        iv == Get(arguments, <<"interval">>, JNull)
        os == Get(arguments, <<"outputsize">>, JNull)
    IN  IF sy = <<>>
        THEN Verdict("return", "no_valid_symbols", <<"no valid symbols provided">>,
                     <<>>, None, None)
        ELSE IF os # JNull /\ ToInt(os).k = "raise"
        THEN Verdict("raise", "", <<"cannot convert float infinity to integer">>,
                     <<>>, None, None)
        ELSE Verdict("go", "", <<>>, sy,
                     IF iv = JNull THEN None ELSE Some(iv[2]),
                     IF os = JNull \/ ToInt(os).k # "int" THEN None ELSE Some(ToInt(os).n))

\* lines 118-149 and 171-202: k is "return" (an error response), "raise" (an
\* exception left to the outer handler) or "go" (the analyzer is called)
Validate(arguments) ==
    IF ~IsObj(arguments)
    THEN Verdict("raise", "", <<"'NoneType' object has no attribute 'get'">>, <<>>, None, None)
    ELSE
    LET symbols == Get(arguments, <<"symbols">>, JList(<<>>)) IN
    IF Falsy(symbols)
    THEN Verdict("return", "missing_symbols",
                 <<"missing symbols parameter, provide list like ['AAPL', 'MSFT']">>,
                 <<>>, None, None)
    ELSE IF symbols[1] \notin {"list", "str", "obj"}
    THEN Verdict("raise", "", <<"object is not iterable">>, <<>>, None, None)
    ELSE IF \E i \in 1..Len(Items(symbols)) : Items(symbols)[i][1] # "str"
    THEN Verdict("raise", "", <<"object has no attribute 'strip'">>, <<>>, None, None)
    ELSE
    LET sy == StripUpper(Items(symbols))
        iv == Get(arguments, <<"interval">>, JNull)
        os == Get(arguments, <<"outputsize">>, JNull)
    IN  IF sy = <<>>
        THEN Verdict("return", "no_valid_symbols", <<"no valid symbols provided">>,
                     <<>>, None, None)
        ELSE IF os # JNull /\ ToInt(os).k = "caught"
        THEN Verdict("return", "bad_outputsize", <<"outputsize must be an integer">>,
                     <<>>, None, None)
        ELSE IF os # JNull /\ ToInt(os).k = "raise"
        THEN Verdict("raise", "", <<"cannot convert float infinity to integer">>,
                     <<>>, None, None)
        ELSE Verdict("go", "", <<>>, sy,
                     IF iv = JNull THEN None ELSE Some(iv[2]),
                     IF os = JNull THEN None ELSE Some(ToInt(os).n))

Ending(r, oc) == [resp |-> r, outcome |-> oc]

\* lines 163-169 and 216-222: except Exception around the analyzer call
InnerExcept(msg) == Ending(ErrorObj(<<"Analysis failed: ">> \o msg), "analysis_failed")

\* a handler without its outer except: the exception escapes
OuterExceptMissing(name, msg) == Ending(JNull, "escaped")

\* lines 239-245: except Exception around the whole handler
OuterExcept(name, msg) ==
    Ending(ErrorObj(<<"Error executing ", name, ": ">> \o msg), "outer_except")

---------------------------------------------------------------------------
(* The inputs: requests, and the worlds they run in *)

\* observations as TwelveData lists them: newest first, <<time, close>>
Values ==
    [none |-> <<>>,
     one |-> << <<1, <<"1">>>> >>,
     up |-> << <<2, <<"2">>>>, <<1, <<"1">>>> >>,
     zero |-> << <<2, <<"2">>>>, <<1, <<"0">>>> >>,
     bad |-> << <<2, <<"x">>>>, <<1, <<"1">>>> >>,
     flat |-> << <<2, <<"1">>>>, <<1, <<"1">>>> >>,
     late |-> << <<3, <<"2">>>>, <<2, <<"1">>>> >>,
     three |-> << <<3, <<"1">>>>, <<2, <<"2">>>>, <<1, <<"1">>>> >>]

Ok(name) == [k |-> "ok", tkey |-> "datetime", values |-> Values[name]]
OkTimestamp(name) == [k |-> "ok", tkey |-> "timestamp", values |-> Values[name]]
Failing(k) == [k |-> k, tkey |-> "datetime", values |-> <<>>]

SymA == <<"A">>
SymB == <<"B">>
SymAB == <<"A", ":", "B">>

BehavioursA ==
    {Ok(n) : n \in {"none", "one", "up", "zero", "bad", "flat", "three"}}
        \cup {Failing(k) : k \in {"status_error", "code_error", "http_error"}}

BehavioursB == {OkTimestamp("late"), Failing("status_error"), Failing("http_error")}

Source(a, b) ==
    [q \in {SymA, SymB, SymAB} |->
       IF q = SymA THEN a ELSE IF q = SymB THEN b ELSE Ok("flat")]

World(key, pad, a, b) == [apiKey |-> key, pad |-> pad, src |-> Source(a, b)]

Worlds ==
    {World(TRUE, FALSE, a, b) :
        a \in BehavioursA, b \in {OkTimestamp("late"), Failing("status_error")}}
    \cup {World(TRUE, TRUE, Ok(n), OkTimestamp("late")) : n \in {"one", "up", "bad", "three"}}
    \cup {World(FALSE, FALSE, Ok("up"), OkTimestamp("late"))}

BoundaryWorlds ==
    {World(TRUE, FALSE, Ok("up"), b) : b \in BehavioursB}
    \cup {World(FALSE, FALSE, Ok("up"), OkTimestamp("late"))}

KeyWorlds == {World(TRUE, FALSE, Ok("up"), OkTimestamp("late"))}

RECURSIVE SeqsUpTo(_, _)
\* the sequences over S of length at most n
SeqsUpTo(S, n) ==
    IF n = 0 THEN {<<>>}
    ELSE SeqsUpTo(S, n - 1) \cup
         {Append(q, x) : q \in {q \in SeqsUpTo(S, n - 1) : Len(q) = n - 1}, x \in S}

Arguments(symbols, iv, os) ==
    JObj((IF symbols = JNull THEN <<>> ELSE << <<<<"symbols">>, symbols>> >>)
         \o (IF iv = JNull THEN <<>> ELSE << <<<<"interval">>, iv>> >>)
         \o (IF os = JNull THEN <<>> ELSE << <<<<"outputsize">>, os>> >>))

GoodItems == {JStr(<<"a">>), JStr(<<" ", "A", " ">>), JStr(<<"b">>)}
AnyItems == GoodItems \cup {JStr(<<" ">>), JNum(7)}

Intervals == {JNull, JStr(<<"1h">>)}

\* interval and outputsize of the requests that pass validation
Params == {<<JNull, JNull>>, <<JStr(<<"1h">>), JNull>>, <<JNull, JNum(1)>>}

\* requests that pass validation
Requests ==
    {[name |-> n, args |-> Arguments(JList(l), q[1], q[2])] :
        n \in AnalyticTools, l \in SeqsUpTo(GoodItems, MaxSyms) \ {<<>>},
        q \in Params}

\* requests of every shape
AllRequests ==
    {[name |-> n, args |-> Arguments(sy, iv, os)] :
        n \in AnalyticTools,
        sy \in {JList(l) : l \in SeqsUpTo(AnyItems, MaxSyms)}
                  \cup {JNull, JNum(5), JStr(<<"a", "b">>)},
        iv \in Intervals,
        os \in {JNull, JNum(1), JStr(<<"x">>), JStr(<<"1">>), Fl(PInf)}}
    \cup {[name |-> n, args |-> a] :
            n \in AnalyticTools \cup {"health_check", "no_such_tool"},
            a \in {JNull, JObj(<<>>)}}

---------------------------------------------------------------------------
(* The state machine *)

NoReq == [name |-> "", args |-> JNull]
NoAnswer == [val |-> JNull, hit |-> FALSE, triple |-> <<<<>>, <<>>, 0>>]

InitRest ==
    /\ now = 0
    /\ cache = EmptyCache
    /\ pc = "idle"
    /\ req = NoReq
    /\ syms = <<>>
    /\ p_interval = None
    /\ p_outputsize = None
    /\ idx = 0
    /\ series_map = <<>>
    /\ log = <<>>
    /\ resp = JNull
    /\ outcome = "none"
    /\ run = 0
    /\ firstResp = JNull
    /\ seen = {}
    /\ answer = NoAnswer
    /\ calls = 0
    /\ wpc = "idle" /\ wn = 0 /\ wts = 0 /\ wlinked = FALSE
    /\ rpc = "idle" /\ rn = 0 /\ rbuf = <<>> /\ rret = None
    /\ lastSaved = None

Init == world \in Worlds /\ InitRest

toolVars == <<pc, req, syms, p_interval, p_outputsize, idx, series_map, log,
              resp, outcome, run, firstResp>>
keyVars == <<seen, answer, calls>>
rwVars == <<wpc, wn, wts, wlinked, rpc, rn, rbuf, rret, lastSaved>>

\* the handler returns
Return(e, n) ==
    /\ pc' = "done"
    /\ resp' = e.resp
    /\ outcome' = e.outcome
    /\ firstResp' = IF n = 1 THEN e.resp ELSE firstResp

\* handle_call_tool up to the call of the analyzer; n is the run's number
Begin(r, n) ==
    /\ req' = r
    /\ run' = n
    /\ log' = <<>>
    /\ series_map' = <<>>
    /\ IF r.name \in AnalyticTools
       THEN \E v \in {Validate(r.args)} :
            IF v.k = "go"
            THEN /\ pc' = "fetch"
                 /\ syms' = v.syms
                 /\ p_interval' = v.interval
                 /\ p_outputsize' = v.outputsize
                 /\ idx' = 1
                 /\ resp' = JNull
                 /\ outcome' = "none"
                 /\ UNCHANGED firstResp
            ELSE /\ Return(IF v.k = "return" THEN Ending(ErrorObj(v.msg), v.outcome)
                           ELSE OuterExcept(r.name, v.msg), n)
                 /\ syms' = <<>> /\ p_interval' = None /\ p_outputsize' = None
                 /\ idx' = 0
       ELSE /\ Return(IF r.name = "health_check"
                      THEN Ending(JObj(<< <<<<"status">>, JStr(<<"ok">>)>> >>), "health")
                      ELSE Ending(ErrorObj(<<"Unknown tool: ", r.name>>), "unknown_tool"), n)
            /\ syms' = <<>> /\ p_interval' = None /\ p_outputsize' = None
            /\ idx' = 0
    /\ UNCHANGED <<world, now, cache, keyVars, rwVars>>

\* a client calls a tool
CallTool(r) == pc = "idle" /\ Begin(r, 1)

\* the client calls compare_stocks again with identical inputs
Rerun ==
    /\ pc = "done"
    /\ req.name = "compare_stocks"
    /\ run < MaxRuns
    /\ Begin(req, run + 1)

\* one iteration of the analyzer's fetch loop
FetchStep ==
    /\ pc = "fetch"
    /\ \E st \in {LoopStep(world, cache, now, series_map, syms[idx],
                              p_interval, p_outputsize)} :
           /\ cache' = st.cache
           /\ log' = Append(log, st.entry)
           /\ IF st.failed
              THEN Return(InnerExcept(st.msg), run) /\ UNCHANGED <<series_map, idx>>
              ELSE /\ series_map' = st.sm
                   /\ idx' = idx + 1
                   /\ pc' = IF idx = Len(syms) THEN "analyze" ELSE "fetch"
                   /\ UNCHANGED <<resp, outcome, firstResp>>
    /\ UNCHANGED <<world, now, req, syms, p_interval, p_outputsize, run, keyVars, rwVars>>

Analyzed(e) ==
    /\ Return(e, run)
    /\ UNCHANGED <<world, now, cache, req, syms, p_interval, p_outputsize, idx,
                   series_map, log, run, keyVars, rwVars>>

\* compare_symbols after the loop
Compare ==
    /\ pc = "analyze"
    /\ req.name = "compare_stocks"
    /\ Analyzed(Ending(CompareResult(series_map, p_interval, world.pad), "result"))

HrpReturns == Returns(Prices(series_map), world.pad)

\* hierarchical_risk_parity_portfolio after the loop: the equal weights
Fallback ==
    /\ pc = "analyze"
    /\ req.name = "hierarchical_risk_parity_portfolio"
    /\ FallsBack(series_map, HrpReturns)
    /\ Analyzed(Ending(EqualWeights(syms), "weights_equal"))

\* ... or the optimizer's weights
Optimize ==
    /\ pc = "analyze"
    /\ req.name = "hierarchical_risk_parity_portfolio"
    /\ ~FallsBack(series_map, HrpReturns)
    /\ \E w \in OptimizerWeights(series_map) :
          Analyzed(Ending(HrpWeights(series_map, w), "weights_hrp"))

\* ... or the optimizer's exception
OptimizeFails ==
    /\ pc = "analyze"
    /\ req.name = "hierarchical_risk_parity_portfolio"
    /\ ~FallsBack(series_map, HrpReturns)
    /\ Analyzed(InnerExcept(<<"optimizer failed">>))

\* time passes
Tick ==
    /\ now < MaxTicks * TickStep
    /\ now' = now + TickStep
    /\ UNCHANGED <<world, cache, toolVars, keyVars, rwVars>>

ToolTick == pc \in {"fetch", "done"} /\ Tick

Next ==
    \/ \E r \in Requests : CallTool(r)
    \/ Rerun
    \/ FetchStep
    \/ Compare
    \/ Fallback
    \/ Optimize
    \/ OptimizeFails
    \/ ToolTick

Spec == Init /\ [][Next]_vars

InitBoundary == world \in BoundaryWorlds /\ InitRest

NextBoundary ==
    \/ \E r \in AllRequests : CallTool(r)
    \/ Rerun
    \/ FetchStep
    \/ Compare
    \/ Fallback
    \/ Optimize
    \/ OptimizeFails

SpecBoundary == InitBoundary /\ [][NextBoundary]_vars

---------------------------------------------------------------------------
(* get_historical called directly, as any caller of data_fetcher may *)

KeySymbols == {<<"a">>, <<"b">>, <<"a", ":", "b">>}
KeyIntervals == {None, Some(<<"1h">>), Some(<<"B", ":", "1h">>)}
KeyOutputsizes == {None, Some(1)}

HistCall(symbol, iv, os) ==
    /\ calls < MaxCalls
    /\ calls' = calls + 1
    /\ \E g \in {get_historical(world, cache, now, symbol, iv, os)} :
          /\ cache' = g.cache
          /\ seen' = seen \cup {<<Triple(symbol, iv, os), g.key>>}
          /\ answer' = [val |-> IF g.res.raised THEN JNull ELSE g.res.val,
                        hit |-> g.hit, triple |-> Triple(symbol, iv, os)]
    /\ UNCHANGED <<world, now, toolVars, rwVars>>

InitKey == world \in KeyWorlds /\ InitRest

NextKey ==
    \/ \E symbol \in KeySymbols, iv \in KeyIntervals, os \in KeyOutputsizes :
          HistCall(symbol, iv, os)
    \/ Tick

SpecKey == InitKey /\ [][NextKey]_vars

---------------------------------------------------------------------------
(* save_json and load_json of one key, run by two threads or processes
   and interleaved at their file operations.  The files are POSIX files: a
   file unlinked while it is open for writing takes what is written to it
   along. *)

RWKey == HistoricalKey(SymA, DEFAULT_INTERVAL, DEFAULT_OUTPUTSIZE)
RWPath == _key_to_path(RWKey)
RWMaxAge == Some(CACHE_HISTORICAL_EXPIRY)

\* the data of the n-th save
SaveData(n) == JNum(n)

\* save_json up to p.open('w'): the payload is built, the file is created
\* or truncated
WOpen ==
    /\ wpc = "idle"
    /\ wn < MaxSaves
    /\ wn' = wn + 1
    /\ wts' = now
    /\ cache' = Put(cache, RWPath, <<>>)
    /\ wlinked' = TRUE
    /\ wpc' = "dump"
    /\ UNCHANGED <<world, now, toolVars, keyVars, rpc, rn, rbuf, rret, lastSaved>>

\* json.dump and the end of the with block: the text reaches the file
WClose ==
    /\ wpc = "dump"
    /\ cache' = IF wlinked THEN Put(cache, RWPath, SavedText(SaveData(wn), wts))
                ELSE cache
    /\ wlinked' = FALSE
    /\ lastSaved' = Some([data |-> SaveData(wn), ts |-> wts])
    /\ wpc' = "idle"
    /\ UNCHANGED <<world, now, toolVars, keyVars, wn, wts, rpc, rn, rbuf, rret>>

\* load_json: p.exists()
RExists ==
    /\ rpc = "idle"
    /\ rn < MaxLoads
    /\ rn' = rn + 1
    /\ rbuf' = <<>>
    /\ IF RWPath \in DOMAIN cache
       THEN rpc' = "read" /\ UNCHANGED rret
       ELSE rpc' = "idle" /\ rret' = None
    /\ UNCHANGED <<world, now, cache, toolVars, keyVars, wpc, wn, wts, wlinked, lastSaved>>

\* p.open('r') and f.read(); the file may be gone by now
RRead ==
    /\ rpc = "read"
    /\ IF RWPath \in DOMAIN cache
       THEN rbuf' = cache[RWPath] /\ rpc' = "check"
       ELSE rbuf' = <<>> /\ rpc' = "unlink"
    /\ rret' = None
    /\ UNCHANGED <<world, now, cache, toolVars, keyVars, wpc, wn, wts, wlinked, rn, lastSaved>>

\* json.loads of what was read, and the age check
RCheck ==
    /\ rpc = "check"
    /\ \E a \in {AfterRead(rbuf, now, RWMaxAge)} :
          /\ rret' = a.ret
          /\ rpc' = IF a.unlink THEN "unlink" ELSE "idle"
    /\ UNCHANGED <<world, now, cache, toolVars, keyVars, wpc, wn, wts, wlinked, rn, rbuf, lastSaved>>

\* p.unlink(), its exception swallowed, and return None
RUnlink ==
    /\ rpc = "unlink"
    /\ cache' = IF RWPath \in DOMAIN cache THEN Remove(cache, RWPath) ELSE cache
    /\ wlinked' = FALSE
    /\ rpc' = "idle"
    /\ UNCHANGED <<world, now, toolVars, keyVars, wpc, wn, wts, rn, rbuf, rret, lastSaved>>

InitCache == world \in KeyWorlds /\ InitRest

NextCache ==
    \/ WOpen
    \/ WClose
    \/ RExists
    \/ RRead
    \/ RCheck
    \/ RUnlink
    \/ Tick

SpecCache == InitCache /\ [][NextCache]_vars

---------------------------------------------------------------------------
(* Properties of the tool boundary *)

IsErrorResponse(v) == IsObj(v) /\ Keys(v) = {<<"error">>}
ErrorText(v) == Get(v, <<"error">>, JStr(<<>>))[2]

\* the text msg holds the text sym
Names(msg, sym) == \E i \in 1..Len(msg) : SubSeq(msg, i, i + Len(sym) - 1) = sym

Results == {"result", "weights_equal", "weights_hrp"}

\* C1: whatever the tool name and the arguments, and whatever the analyzer
\* or the fetch raises, handle_call_tool returns a text and lets no
\* exception escape; unless it returns an analysis result or the health
\* status, the text is a JSON object whose only key is "error" (and parses
\* back as that object).
C1_ErrorsAreStructured ==
    pc = "done" =>
       /\ outcome # "escaped"
       /\ outcome \notin Results \cup {"health"} =>
             /\ IsErrorResponse(resp)
             /\ Load(Dump(resp)) = ParseOk(resp, <<>>)

\* C1's case: the fetch raised in the middle of a call, and the call
\* answered with an error object
C1_Witness ==
    /\ pc = "done"
    /\ outcome = "analysis_failed"
    /\ log # <<>> /\ log[Len(log)].raised
    /\ IsErrorResponse(resp)

\* what the input validation rejects: symbols missing or empty, symbols
\* empty after trimming, an outputsize that is no integer
ParsesAsInt(os) ==
    \/ os[1] = "num"
    \/ os[1] = "str" /\ \E n \in 0..9 : Strip(os[2]) = StrInt(n)
    \/ os[1] = "float" /\ IsFinite(os[2])

InvalidInput(args) ==
    /\ IsObj(args)
    /\ LET symbols == Get(args, <<"symbols">>, JNull)
           os == Get(args, <<"outputsize">>, JNull)
       IN  \/ symbols \in {JNull, JList(<<>>)}
           \/ /\ symbols[1] = "list"
              /\ \A i \in 1..Len(symbols[2]) :
                    symbols[2][i][1] = "str" /\ Strip(symbols[2][i][2]) = <<>>
           \/ os # JNull /\ ~ParsesAsInt(os)

\* C3: a call of compare_stocks or hierarchical_risk_parity_portfolio whose
\* input fails validation ends at once with an error response, and at no
\* point of the call is get_historical (the only reader and writer of the
\* cache, and the only caller of the data source) called.
C3_InvalidInputFetchesNothing ==
    (req.name \in AnalyticTools /\ InvalidInput(req.args)) =>
       /\ pc = "done"
       /\ IsErrorResponse(resp)
       /\ log = <<>>
       /\ cache = EmptyCache

\* C3's case: a request with good symbols and an outputsize that is no
\* integer was answered
C3_Witness ==
    /\ pc = "done"
    /\ outcome = "bad_outputsize"
    /\ Get(req.args, <<"symbols">>, JNull) = JList(<<JStr(<<"a">>), JStr(<<"b">>)>>)

---------------------------------------------------------------------------
(* Properties of the analyzers *)

\* position k of the fetch loop failed: the data source reported an error
\* status, or the fetch raised
FetchFailed(k) == log[k].raised \/ log[k].status_error

\* the loop fetches in list order, once per position, and stops at the
\* first failure with no result
StopsAtFailure(k) ==
    /\ \A j \in 1..Len(log) : log[j].sym = syms[j]
    /\ k = Len(log)
    /\ pc = "done"
    /\ outcome = "analysis_failed"
    /\ IsErrorResponse(resp)

Weights(v) == [i \in 1..Len(v[2]) |-> v[2][i][2][2]]

SumsToOne(ws) ==
    LET s == FSum(ws)
    IN  IsFinite(s) /\ Abs(s.n - s.d) * 1000000 <= s.d

\* C4 as stated: the weights hierarchical_risk_parity_portfolio returns are
\* all >= 0 and sum to 1 within 1e-6, the equal-weight fallback and requests
\* with repeated symbols included.
C4_WeightsSumToOne ==
    (pc = "done" /\ outcome \in {"weights_equal", "weights_hrp"}) =>
       /\ \A i \in 1..Len(resp[2]) :
             IsFinite(Weights(resp)[i]) /\ Weights(resp)[i].n >= 0
       /\ SumsToOne(Weights(resp))

\* the columns the returns panel can have
Columns == {Upper(syms[i]) : i \in 1..Len(syms)}

\* C5: when every fetch succeeded and the returns panel is empty or has
\* fewer than 2 columns, the optimizer is not run and the response gives
\* 1/N to each requested symbol, N being the length of the requested list
\* with its repeats.
C5_FallbackIsOneOverN ==
    (/\ pc = "done"
     /\ req.name = "hierarchical_risk_parity_portfolio"
     /\ Len(log) = Len(syms)
     /\ \A k \in 1..Len(log) : ~log[k].failed
     /\ (HrpReturns = <<>> \/ Cardinality(Columns) < 2)) =>
       /\ outcome = "weights_equal"
       /\ Keys(resp) = {syms[i] : i \in 1..Len(syms)}
       /\ \A i \in 1..Len(syms) :
             Get(resp, syms[i], JNull) = Fl(Q(1, Len(syms)))

\* C5's case: a symbol requested twice, so one column, and the fallback
\* answered
C5_Witness ==
    /\ pc = "done"
    /\ outcome = "weights_equal"
    /\ Len(syms) = 2
    /\ Cardinality(Columns) = 1
    /\ HrpReturns # <<>>

\* C6: with a data source that answers the same request the same way, a
\* call of compare_stocks repeated with the same inputs returns what the
\* first call (made with an empty cache) returned, also when its payloads
\* come from the cache.
C6_WarmEqualsCold ==
    (pc = "done" /\ req.name = "compare_stocks" /\ run >= 2) => resp = firstResp

\* C6's case: the second call computed a result from cache hits alone
C6_Witness ==
    /\ pc = "done"
    /\ req.name = "compare_stocks"
    /\ run = 2
    /\ outcome = "result"
    /\ Len(log) = 2
    /\ \A k \in 1..Len(log) : log[k].hit /\ ~log[k].net

\* the five metrics of one symbol
MetricNames == {<<"latest">>, <<"cumulative_return">>, <<"volatility">>,
                <<"sharpe">>, <<"var_95">>}

NullOrFinite(v) == v = JNull \/ (v[1] = "float" /\ IsFinite(v[2]))

MetricsOf(v) == Get(v, <<"metrics">>, JObj(<<>>))
CorrelationOf(v) == Get(v, <<"correlation">>, JObj(<<>>))

\* C7 as stated: each metric of each symbol in a result of compare_stocks is
\* null or a finite number, never NaN and never infinite, whatever the
\* prices (a zero price followed by a later price included).
C7_MetricsAreFinite ==
    (pc = "done" /\ outcome = "result") =>
       \A sym \in Keys(MetricsOf(resp)) : \A m \in MetricNames :
          NullOrFinite(Get(Get(MetricsOf(resp), sym, JNull), m, JNull))

\* the requested symbols, trimmed and upper-cased
Requested ==
    LET raw == Get(req.args, <<"symbols">>, JList(<<>>))[2]
    IN  {Upper(Strip(raw[i][2])) : i \in 1..Len(raw)}

\* C8: when every fetch succeeded, metrics has exactly one entry per
\* distinct (trimmed, upper-cased) requested symbol, and correlation and
\* each of its rows have the same keys; repeated symbols and symbols with
\* no observation included.
C8_KeysAreRequestedSymbols ==
    (pc = "done" /\ outcome = "result") =>
       /\ Keys(MetricsOf(resp)) = Requested
       /\ Len(MetricsOf(resp)[2]) = Cardinality(Requested)
       /\ Keys(CorrelationOf(resp)) = Requested
       /\ Len(CorrelationOf(resp)[2]) = Cardinality(Requested)
       /\ \A sym \in Requested :
             Keys(Get(CorrelationOf(resp), sym, JObj(<<>>))) = Requested

\* C8's case: a symbol with no observation was requested twice
C8_Witness ==
    /\ pc = "done"
    /\ outcome = "result"
    /\ Len(syms) > Cardinality(Requested)
    /\ \E sym \in Requested : Get(MetricsOf(resp), sym, JNull) = NullMetrics

---------------------------------------------------------------------------
(* Properties of the cache *)

\* save_json and load_json have both returned
Quiescent == wpc = "idle" /\ rpc = "idle"

\* C9 as stated: however the file operations of a save_json and a load_json
\* of one key interleave, once they have all completed a load_json of the
\* key within max_age returns the data of the last completed save_json.
C9_CompletedWriteSurvives ==
    (/\ Quiescent
     /\ lastSaved # None
     /\ now - lastSaved[1].ts <= RWMaxAge[1]) =>
       load_json(cache, RWKey, now, RWMaxAge).ret = Some(lastSaved[1].data)

\* what the data source answers for a parameter triple
Fetched(tr) == ApiPayload(world.src[tr[1]], tr[1], tr[2], tr[3])

\* C10 as stated: two calls of get_historical whose effective parameters
\* (upper-cased symbol, defaulted interval, defaulted outputsize) differ
\* have different cache keys, and a call answered from the cache gets the
\* payload of its own parameters.
C10_KeysSeparateTriples ==
    /\ \A p, q \in seen : p[1] # q[1] => p[2] # q[2]
    /\ answer.hit => answer.val = Fetched(answer.triple)

====
